---- MODULE Spec2Model ----
(***************************************************************************)
(* Model of serving/chat_api.py: the RAG gateway's hit normaliser,         *)
(* citation extractor, answer post-processing and the /chat and /dryrun    *)
(* handlers with their Prometheus metrics.                                 *)
(*                                                                         *)
(* Strings are sequences of one-character strings, so that len(), lower(), *)
(* startswith(), rstrip(), splitlines() and join() are computed as Python  *)
(* computes them.  An optional value (a key that may be missing or None)   *)
(* is a sequence of length 0 (absent) or 1 (present).                      *)
(***************************************************************************)
EXTENDS Integers, Sequences, FiniteSets, TLC

VARIABLES
    MAX_CTX_SNIPPETS,   \* chat_api.py:22, read from the environment at import
    MAX_CTX_CHARS,      \* chat_api.py:23
    nRaw,               \* the normaliser under test: its input hits
    nCtx,               \* ... the value of _normalize_hits(nRaw)
    nCits,              \* ... the value of _collect_citations(nCtx)
    nDone,              \* ... whether the functions have been applied
    fCits,              \* the post-processing under test: its citation list
    fOut,               \* ... the content, before and after each pass
    fPrev,              \* ... the content before the latest pass
    fPasses,            \* ... the number of passes applied
    frame,              \* per request: the handler's position and locals
    resp,               \* per request: what the caller has received
    vllm_received,      \* the payloads the generation backend has received
    REQS,               \* chat_requests_total, by route
    ERRS,               \* chat_errors_total, by stage
    E2E_LAT,            \* observations of chat_end_to_end_latency_seconds
    RAG_LAT,            \* observations of rag_retrieval_latency_seconds
    VLLM_LAT,           \* observations of vllm_request_latency_seconds
    TOK_PROMPT,         \* chat_prompt_tokens
    TOK_COMPLETION,     \* chat_completion_tokens
    TOK_TOTAL           \* chat_total_tokens

cfgVars == <<MAX_CTX_SNIPPETS, MAX_CTX_CHARS>>
normVars == <<nRaw, nCtx, nCits, nDone>>
finVars == <<fCits, fOut, fPrev, fPasses>>
metricVars == <<REQS, ERRS, E2E_LAT, RAG_LAT, VLLM_LAT>>
gaugeVars == <<TOK_PROMPT, TOK_COMPLETION, TOK_TOTAL>>
otherVars == <<cfgVars, normVars, finVars>>
pipeVars == <<frame, resp, vllm_received, metricVars, gaugeVars>>
vars == <<cfgVars, normVars, finVars, pipeVars>>

----------------------------------------------------------------------------
(* Bounds of the model *)

\* longest list of raw hits the retriever returns
MaxHits == 3
\* largest MAX_CTX_SNIPPETS setting explored
MaxSnippetSetting == 2
\* largest MAX_CTX_CHARS setting explored
MaxCharSetting == 3

\* requests the server handles at once
NumReqs == 2
\* longest content, in pieces, handed to the post-processing
MaxPieces == 3
\* passes of the post-processing applied to one content
MaxPasses == 2

----------------------------------------------------------------------------
(* Python values *)

None == <<>>
Some(v) == <<v>>
IsNone(o) == Len(o) = 0
\* `o or d` for an optional string o: None and "" are both falsy
OrElse(o, d) == IF IsNone(o) \/ Len(o[1]) = 0 THEN d ELSE o[1]

\* the characters the model's strings are made of
sA == <<"A">>
sB == <<"B">>
sIntro == <<"i", "n", "t", "r", "o">>
sFull == <<"f", "u", "l", "l">>
sUnknown == <<"u", "n", "k", "n", "o", "w", "n">>
sRecentPrefix ==
    <<"r", "e", "c", "e", "n", "t", "_", "q", "u", "e", "r", "i", "e", "s",
      ".", "j", "s", "o", "n", "l">>
sRecentMixed ==
    <<"R", "e", "c", "e", "n", "t", "_", "Q", "u", "e", "r", "i", "e", "s",
      ".", "j", "s", "o", "n", "l", ".", "g", "z">>

\* str.lower() on the ASCII letters
LowerChar(c) ==
    CASE c = "A" -> "a" [] c = "B" -> "b" [] c = "C" -> "c" [] c = "D" -> "d"
      [] c = "E" -> "e" [] c = "F" -> "f" [] c = "G" -> "g" [] c = "H" -> "h"
      [] c = "I" -> "i" [] c = "J" -> "j" [] c = "K" -> "k" [] c = "L" -> "l"
      [] c = "M" -> "m" [] c = "N" -> "n" [] c = "O" -> "o" [] c = "P" -> "p"
      [] c = "Q" -> "q" [] c = "R" -> "r" [] c = "S" -> "s" [] c = "T" -> "t"
      [] c = "U" -> "u" [] c = "V" -> "v" [] c = "W" -> "w" [] c = "X" -> "x"
      [] c = "Y" -> "y" [] c = "Z" -> "z" [] OTHER -> c
Lower(s) == [i \in 1..Len(s) |-> LowerChar(s[i])]

\* str.startswith(p)
StartsWith(s, p) == Len(s) >= Len(p) /\ SubSeq(s, 1, Len(p)) = p

\* a retrieval hit: h.get("text"), and the doc_id, section and text of
\* h.get("meta") or {}
Hit(text, did, sec, mtext) ==
    [text |-> text, doc_id |-> did, section |-> sec, meta_text |-> mtext]

----------------------------------------------------------------------------
(* _label, _collect_citations, _normalize_hits *)

_label(h) ==
    IF IsNone(h.doc_id) \/ Len(h.doc_id[1]) = 0
    THEN sUnknown
    ELSE IF ~IsNone(h.section) /\ Len(h.section[1]) > 0 /\ h.section[1] # sFull
         THEN h.doc_id[1] \o <<"#">> \o h.section[1]
         ELSE h.doc_id[1]

RECURSIVE CollectLoop(_, _, _, _)
CollectLoop(hits, i, seen, out) ==
    IF i > Len(hits) THEN out
    ELSE LET lab == _label(hits[i])
         IN  IF lab \notin seen
             THEN CollectLoop(hits, i + 1, seen \cup {lab}, Append(out, lab))
             ELSE CollectLoop(hits, i + 1, seen, out)

_collect_citations(hits) == CollectLoop(hits, 1, {}, <<>>)

\* lines 81-86: drop the hits of recent_queries.jsonl*
IsNoise(h) == StartsWith(Lower(OrElse(h.doc_id, <<>>)), sRecentPrefix)
NoiseFilter(hits) == SelectSeq(hits, LAMBDA h : ~IsNoise(h))

\* line 89: list.sort is stable and the key is a boolean, False first
TextIsNone(h) == IsNone(h.text)
SortTextFirst(filt) ==
    SelectSeq(filt, LAMBDA h : ~TextIsNone(h)) \o SelectSeq(filt, TextIsNone)

\* lines 92-98
RECURSIVE DedupLoop(_, _, _, _)
DedupLoop(filt, i, seen, dedup) ==
    IF i > Len(filt) THEN dedup
    ELSE LET lab == _label(filt[i])
         IN  IF lab \in seen
             THEN DedupLoop(filt, i + 1, seen, dedup)
             ELSE DedupLoop(filt, i + 1, seen \cup {lab}, Append(dedup, filt[i]))
DedupByLabel(filt) == DedupLoop(filt, 1, {}, <<>>)

\* line 104 (and 157, 251): the text a hit contributes to the context
HitText(h) == OrElse(h.text, OrElse(h.meta_text, <<>>))

\* a trim that forgets the length of the hit it is about to admit
AdmitsIgnoringLength(nTrimmed, total, txt, maxSnippets, maxChars) ==
    nTrimmed < maxSnippets /\ total <= maxChars

\* line 105: the admission test of the budget trim
Admits(nTrimmed, total, txt, maxSnippets, maxChars) ==
    nTrimmed < maxSnippets /\ total + Len(txt) <= maxChars

\* lines 101-109: the loop, with its break
RECURSIVE TrimLoop(_, _, _, _, _, _)
TrimLoop(dedup, i, trimmed, total, maxSnippets, maxChars) ==
    IF i > Len(dedup) THEN trimmed
    ELSE LET h == dedup[i]
             txt == HitText(h)
             admit == Admits(Len(trimmed), total, txt, maxSnippets, maxChars)
             trimmed2 == IF admit THEN Append(trimmed, h) ELSE trimmed
             total2 == IF admit THEN total + Len(txt) ELSE total
         IN  IF Len(trimmed2) >= maxSnippets
             THEN trimmed2
             ELSE TrimLoop(dedup, i + 1, trimmed2, total2, maxSnippets, maxChars)

\* a trim that stops at the first hit that overflows the character budget
RECURSIVE TrimLoopStopOnOverflow(_, _, _, _, _, _)
TrimLoopStopOnOverflow(dedup, i, trimmed, total, maxSnippets, maxChars) ==
    IF i > Len(dedup) THEN trimmed
    ELSE LET h == dedup[i]
             txt == HitText(h)
             admit == Admits(Len(trimmed), total, txt, maxSnippets, maxChars)
         IN  IF ~admit
             THEN trimmed
             ELSE TrimLoopStopOnOverflow(dedup, i + 1, Append(trimmed, h),
                                         total + Len(txt), maxSnippets, maxChars)

BudgetTrimStopOnOverflow(dedup, maxSnippets, maxChars) ==
    TrimLoopStopOnOverflow(dedup, 1, <<>>, 0, maxSnippets, maxChars)

BudgetTrim(dedup, maxSnippets, maxChars) ==
    TrimLoop(dedup, 1, <<>>, 0, maxSnippets, maxChars)

Dedup(hits) == DedupByLabel(SortTextFirst(NoiseFilter(hits)))

_normalize_hits(hits, maxSnippets, maxChars) ==
    BudgetTrim(Dedup(hits), maxSnippets, maxChars)

----------------------------------------------------------------------------
(* _strip_existing_source and the footer of lines 222-223 *)

\* the characters str.rstrip() and str.strip() remove
Whitespace == {" ", "\t", "\n", "\r", "\f"}
\* the characters str.splitlines() breaks at ("\r\n" is one break)
LineBreaks == {"\n", "\r", "\f"}

RECURSIVE RStrip(_)
RStrip(s) ==
    IF s # <<>> /\ s[Len(s)] \in Whitespace
    THEN RStrip(SubSeq(s, 1, Len(s) - 1))
    ELSE s

RECURSIVE LStrip(_)
LStrip(s) ==
    IF s # <<>> /\ Head(s) \in Whitespace THEN LStrip(Tail(s)) ELSE s

Strip(s) == LStrip(RStrip(s))

RECURSIVE SplitLoop(_, _, _, _)
SplitLoop(s, i, cur, out) ==
    IF i > Len(s)
    THEN IF cur # <<>> THEN Append(out, cur) ELSE out
    ELSE IF s[i] = "\r" /\ i < Len(s) /\ s[i + 1] = "\n"
         THEN SplitLoop(s, i + 2, <<>>, Append(out, cur))
         ELSE IF s[i] \in LineBreaks
              THEN SplitLoop(s, i + 1, <<>>, Append(out, cur))
              ELSE SplitLoop(s, i + 1, Append(cur, s[i]), out)

SplitLines(s) == SplitLoop(s, 1, <<>>, <<>>)

RECURSIVE Join(_, _)
Join(parts, sep) ==
    IF parts = <<>> THEN <<>>
    ELSE IF Len(parts) = 1 THEN parts[1]
         ELSE parts[1] \o sep \o Join(Tail(parts), sep)

sSourcePrefix == <<"s", "o", "u", "r", "c", "e", ":">>
sFooterHead == <<"\n", "S", "o", "u", "r", "c", "e", ":", " ">>
sFooterNone ==
    <<"\n", "S", "o", "u", "r", "c", "e", ":", " ", "(", "n", "o", "n", "e", ")">>

IsSourceLine(ln) == StartsWith(Lower(Strip(ln)), sSourcePrefix)

_strip_existing_source(txt) ==
    LET lines == SplitLines(RStrip(txt))
        kept == SelectSeq(lines, LAMBDA ln : ~IsSourceLine(ln))
    IN  RStrip(Join(kept, <<"\n">>))

\* line 223
Footer(citations) ==
    IF citations # <<>>
    THEN sFooterHead \o Join(citations, <<";", " ">>)
    ELSE sFooterNone

\* lines 222-223
Finalize(content, citations) ==
    _strip_existing_source(content) \o Footer(citations)

----------------------------------------------------------------------------
(* The hits the retriever may return *)

sX1 == <<"x">>
sX2 == <<"x", "y">>
sX3 == <<"x", "y", "z">>

HitUniverse ==
    { Hit(Some(sX2), Some(sA), Some(sIntro), None),
      Hit(None, Some(sA), Some(sIntro), Some(sX1)),
      Hit(Some(sX3), Some(sA), Some(sFull), None),
      Hit(Some(sX1), Some(sB), None, None),
      Hit(None, None, None, None),
      Hit(Some(sX1), Some(sRecentMixed), None, None),
      Hit(Some(<<>>), Some(sB), Some(sIntro), Some(sX2)) }

RECURSIVE SeqsUpTo(_, _)
SeqsUpTo(S, n) ==
    IF n = 0 THEN {<<>>}
    ELSE LET shorter == SeqsUpTo(S, n - 1)
         IN  shorter \cup {Append(s, x) : s \in shorter, x \in S}

HitLists == SeqsUpTo(HitUniverse, MaxHits)

----------------------------------------------------------------------------
(* The /chat and /dryrun handlers *)

Reqs == 1..NumReqs

\* ChatRequest defaults, lines 55-57 (temperature in hundredths)
DefaultK == 4
DefaultMaxTokens == 200
DefaultTemperature == 10
\* the clamps of lines 195-196 and top_p of line 201 (in hundredths)
TemperatureCeiling == 50
MaxTokensCeiling == 256
TopP == 90

ChatBody(q, maxTokens, temperature, debug) ==
    [question |-> q, k |-> DefaultK, max_tokens |-> maxTokens,
     temperature |-> temperature, debug |-> debug]
\* /dryrun reads question and k only
DryBody(q) == ChatBody(q, DefaultMaxTokens, DefaultTemperature, FALSE)

\* what the retriever answers: kind "ok" carries the hits; "timeout" makes
\* cx.post raise, "status" makes raise_for_status raise, "malformed" makes
\* r.json() raise
RetrieverOk(hits) == [kind |-> "ok", hits |-> hits]
RetrieverFails(kind) == [kind |-> kind, hits |-> <<>>]
RetrievalFailures == {"timeout", "status", "malformed"}

\* data.get("usage", {}): the three counts, and the keys whose value float()
\* rejects
Usage(p, c, t, bad) ==
    [prompt_tokens |-> p, completion_tokens |-> c, total_tokens |-> t, bad |-> bad]
NoUsage == Usage(0, 0, 0, {})

\* what the generation backend answers: kind "ok" carries
\* choices[0].message.content and usage; "unreachable" makes cx.post raise,
\* "status" makes raise_for_status raise, "malformed" makes rr.json() raise,
\* "no_content" is a JSON body without choices[0].message.content
VllmOk(content, usage) == [kind |-> "ok", content |-> content, usage |-> usage]
VllmFails(kind) == [kind |-> kind, content |-> <<>>, usage |-> NoUsage]
GenerationCallFailures == {"unreachable", "status", "malformed"}

Max(a, b) == IF a > b THEN a ELSE b
Min(a, b) == IF a < b THEN a ELSE b

\* a clamp that forgets the ceiling
ClampTemperatureNoCeiling(t) == Max(0, t)

\* line 195
ClampTemperature(t) == Max(0, Min(t, TemperatureCeiling))

\* line 196
ClampMaxTokens(n) == Min(n, MaxTokensCeiling)

\* lines 152-158 and 246-252
UsedSnippets(ctx_hits) ==
    [i \in 1..Len(ctx_hits) |->
        [label |-> _label(ctx_hits[i]), text |-> HitText(ctx_hits[i])]]

\* prompt_templates.build_messages: a pure function of the question and the
\* evidence it is given
build_messages(q, hits) ==
    << [role |-> "system", content |-> <<"", <<>>>>],
       [role |-> "user", content |-> <<q, UsedSnippets(hits)>>] >>

\* lines 147-149
DryrunAssemble(q, raw_hits) ==
    LET ctx_hits == _normalize_hits(raw_hits, MAX_CTX_SNIPPETS, MAX_CTX_CHARS)
    IN  [ctx_hits |-> ctx_hits,
         citations |-> _collect_citations(ctx_hits),
         messages |-> build_messages(q, ctx_hits)]

\* a /chat that builds its prompt from the raw hits
ChatAssembleFromRaw(q, raw_hits) ==
    LET ctx_hits == _normalize_hits(raw_hits, MAX_CTX_SNIPPETS, MAX_CTX_CHARS)
    IN  [ctx_hits |-> ctx_hits,
         citations |-> _collect_citations(ctx_hits),
         messages |-> build_messages(q, raw_hits)]

\* lines 188-192
ChatAssemble(q, raw_hits) ==
    LET ctx_hits == _normalize_hits(raw_hits, MAX_CTX_SNIPPETS, MAX_CTX_CHARS)
    IN  [ctx_hits |-> ctx_hits,
         citations |-> _collect_citations(ctx_hits),
         messages |-> build_messages(q, ctx_hits)]

\* lines 197-204
ChatPayload(body, messages) ==
    [model |-> "smollm2-135m-atharva",
     messages |-> messages,
     temperature |-> ClampTemperature(body.temperature),
     top_p |-> TopP,
     max_tokens |-> ClampMaxTokens(body.max_tokens),
     stream |-> FALSE]

\* a handler that swallows the retrieval exception and carries on
AfterRetrievalSwallowing(kind) == "generate"

\* lines 181-183: the except block re-raises, which ends the handler
AfterRetrieval(kind) ==
    IF kind \in RetrievalFailures THEN "error" ELSE "generate"

NoFrame ==
    [pc |-> "idle", route |-> "", req |-> DryBody(""), rag |-> "", llm |-> "",
     raw_hits |-> <<>>, ctx_hits |-> <<>>, citations |-> <<>>,
     messages |-> <<>>, payload |-> None, content |-> <<>>, usage |-> NoUsage]

NoResponse ==
    [status |-> "pending", answer |-> <<>>, citations |-> <<>>,
     messages |-> None, used_snippets |-> <<>>, usage |-> NoUsage,
     debug |-> None]
\* an uncaught exception: the server answers 500
ErrorResponse == [NoResponse EXCEPT !.status = "error"]

Inc(counter, label) == [counter EXCEPT ![label] = @ + 1]

\* /dryrun, lines 132-166
Dryrun(r, Bodies, Responses) ==
    /\ frame[r].pc = "idle"
    /\ \E body \in Bodies, rsp \in Responses :
          LET failed == rsp.kind \in RetrievalFailures
              a == DryrunAssemble(body.question, rsp.hits)
          IN  /\ REQS' = Inc(REQS, "/dryrun")
              /\ ERRS' = IF failed THEN Inc(ERRS, "retriever") ELSE ERRS
              /\ RAG_LAT' = RAG_LAT + 1
              /\ frame' = [frame EXCEPT ![r] =
                    IF failed
                    THEN [NoFrame EXCEPT !.pc = "error", !.route = "/dryrun",
                                         !.req = body, !.rag = rsp.kind]
                    ELSE [NoFrame EXCEPT !.pc = "done", !.route = "/dryrun",
                                         !.req = body, !.rag = rsp.kind,
                                         !.raw_hits = rsp.hits,
                                         !.ctx_hits = a.ctx_hits,
                                         !.citations = a.citations,
                                         !.messages = a.messages]]
              /\ resp' = [resp EXCEPT ![r] =
                    IF failed
                    THEN ErrorResponse
                    ELSE [NoResponse EXCEPT !.status = "ok",
                                            !.citations = a.citations,
                                            !.used_snippets = UsedSnippets(a.ctx_hits),
                                            !.messages = Some(a.messages)]]
    /\ UNCHANGED <<vllm_received, E2E_LAT, VLLM_LAT, gaugeVars, otherVars>>

\* /chat, lines 170-204: the request counter, the retrieval call with its
\* except and finally blocks, normalisation, citations, prompt and payload
ChatRetrieve(r, Bodies, Responses) ==
    /\ frame[r].pc = "idle"
    /\ \E body \in Bodies, rsp \in Responses :
          LET failed == rsp.kind \in RetrievalFailures
              a == ChatAssemble(body.question, rsp.hits)
              next == AfterRetrieval(rsp.kind)
          IN  /\ REQS' = Inc(REQS, "/chat")
              /\ ERRS' = IF failed THEN Inc(ERRS, "retriever") ELSE ERRS
              /\ RAG_LAT' = RAG_LAT + 1
              /\ frame' = [frame EXCEPT ![r] =
                    IF next = "error"
                    THEN [NoFrame EXCEPT !.pc = "error", !.route = "/chat",
                                         !.req = body, !.rag = rsp.kind]
                    ELSE [NoFrame EXCEPT !.pc = next, !.route = "/chat",
                                         !.req = body, !.rag = rsp.kind,
                                         !.raw_hits = rsp.hits,
                                         !.ctx_hits = a.ctx_hits,
                                         !.citations = a.citations,
                                         !.messages = a.messages,
                                         !.payload =
                                             Some(ChatPayload(body, a.messages))]]
              /\ resp' = [resp EXCEPT ![r] =
                    IF next = "error" THEN ErrorResponse ELSE @]
    /\ UNCHANGED <<vllm_received, E2E_LAT, VLLM_LAT, gaugeVars, otherVars>>

\* /chat, lines 206-223: the generation call with its except and finally
\* blocks, then the extraction of content and usage and the post-processing
ChatGenerate(r, Responses) ==
    /\ frame[r].pc = "generate"
    /\ \E rsp \in Responses :
          LET callFailed == rsp.kind \in GenerationCallFailures
              keyError == rsp.kind = "no_content"
          IN  /\ vllm_received' =
                    vllm_received \cup {[from |-> r, payload |-> frame[r].payload[1]]}
              /\ ERRS' = IF callFailed THEN Inc(ERRS, "vllm") ELSE ERRS
              /\ VLLM_LAT' = VLLM_LAT + 1
              /\ frame' = [frame EXCEPT ![r] =
                    IF callFailed \/ keyError
                    THEN [@ EXCEPT !.pc = "error", !.llm = rsp.kind]
                    ELSE [@ EXCEPT !.pc = "tok_prompt", !.llm = rsp.kind,
                                   !.usage = rsp.usage,
                                   !.content =
                                       Finalize(rsp.content, frame[r].citations)]]
              /\ resp' = [resp EXCEPT ![r] =
                    IF callFailed \/ keyError THEN ErrorResponse ELSE @]
    /\ UNCHANGED <<REQS, E2E_LAT, RAG_LAT, gaugeVars, otherVars>>

\* line 227; an exception of float() or usage.get leaves the try block
SetTokPrompt(r) ==
    /\ frame[r].pc = "tok_prompt"
    /\ IF "prompt_tokens" \in frame[r].usage.bad
       THEN /\ frame' = [frame EXCEPT ![r].pc = "observe"]
            /\ UNCHANGED TOK_PROMPT
       ELSE /\ frame' = [frame EXCEPT ![r].pc = "tok_completion"]
            /\ TOK_PROMPT' = frame[r].usage.prompt_tokens
    /\ UNCHANGED <<resp, vllm_received, metricVars, TOK_COMPLETION, TOK_TOTAL, otherVars>>

\* line 228
SetTokCompletion(r) ==
    /\ frame[r].pc = "tok_completion"
    /\ IF "completion_tokens" \in frame[r].usage.bad
       THEN /\ frame' = [frame EXCEPT ![r].pc = "observe"]
            /\ UNCHANGED TOK_COMPLETION
       ELSE /\ frame' = [frame EXCEPT ![r].pc = "tok_total"]
            /\ TOK_COMPLETION' = frame[r].usage.completion_tokens
    /\ UNCHANGED <<resp, vllm_received, metricVars, TOK_PROMPT, TOK_TOTAL, otherVars>>

\* line 229
SetTokTotal(r) ==
    /\ frame[r].pc = "tok_total"
    /\ frame' = [frame EXCEPT ![r].pc = "observe"]
    /\ IF "total_tokens" \in frame[r].usage.bad
       THEN UNCHANGED TOK_TOTAL
       ELSE TOK_TOTAL' = frame[r].usage.total_tokens
    /\ UNCHANGED <<resp, vllm_received, metricVars, TOK_PROMPT, TOK_COMPLETION, otherVars>>

\* a /chat that returns without observing the end-to-end latency
ChatFinishNoObserve(r) ==
    /\ frame[r].pc = "observe"
    /\ frame' = [frame EXCEPT ![r].pc = "done"]
    /\ resp' = [resp EXCEPT ![r] =
          [NoResponse EXCEPT !.status = "ok",
                             !.answer = frame[r].content,
                             !.citations = frame[r].citations,
                             !.usage = frame[r].usage]]
    /\ UNCHANGED <<vllm_received, metricVars, gaugeVars, otherVars>>

\* lines 235-262
ChatFinish(r) ==
    /\ frame[r].pc = "observe"
    /\ E2E_LAT' = E2E_LAT + 1
    /\ frame' = [frame EXCEPT ![r].pc = "done"]
    /\ resp' = [resp EXCEPT ![r] =
          [NoResponse EXCEPT
              !.status = "ok",
              !.answer = frame[r].content,
              !.citations = frame[r].citations,
              !.usage = frame[r].usage,
              !.debug =
                  IF frame[r].req.debug
                  THEN Some([messages |-> frame[r].messages,
                             used_snippets |-> UsedSnippets(frame[r].ctx_hits),
                             raw_hits |-> frame[r].raw_hits,
                             payload_model |-> frame[r].payload[1].model,
                             payload_temperature |-> frame[r].payload[1].temperature,
                             payload_max_tokens |-> frame[r].payload[1].max_tokens])
                  ELSE None]]
    /\ UNCHANGED <<vllm_received, REQS, ERRS, RAG_LAT, VLLM_LAT, gaugeVars, otherVars>>

\* the state of the process after import, before any request
PipeIdle ==
    /\ frame = [r \in Reqs |-> NoFrame]
    /\ resp = [r \in Reqs |-> NoResponse]
    /\ vllm_received = {}
    /\ REQS = [route \in {"/chat", "/dryrun"} |-> 0]
    /\ ERRS = [stage \in {"retriever", "vllm"} |-> 0]
    /\ E2E_LAT = 0
    /\ RAG_LAT = 0
    /\ VLLM_LAT = 0
    /\ TOK_PROMPT = 0
    /\ TOK_COMPLETION = 0
    /\ TOK_TOTAL = 0

----------------------------------------------------------------------------
(* SpecNorm: _normalize_hits and _collect_citations on every bounded input *)

NormIdle == nRaw = <<>> /\ nCtx = <<>> /\ nCits = <<>> /\ nDone = FALSE
FinIdle == fCits = <<>> /\ fOut = <<>> /\ fPrev = <<>> /\ fPasses = 0

InitNorm ==
    /\ FinIdle
    /\ PipeIdle
    /\ MAX_CTX_SNIPPETS \in 0..MaxSnippetSetting
    /\ MAX_CTX_CHARS \in 0..MaxCharSetting
    /\ nRaw \in HitLists
    /\ nCtx = <<>>
    /\ nCits = <<>>
    /\ nDone = FALSE

\* a handler that takes its citations from the raw hits
NormalizeCitingRaw ==
    /\ ~nDone
    /\ nCtx' = _normalize_hits(nRaw, MAX_CTX_SNIPPETS, MAX_CTX_CHARS)
    /\ nCits' = _collect_citations(nRaw)
    /\ nDone' = TRUE
    /\ UNCHANGED <<nRaw, cfgVars, finVars, pipeVars>>

\* lines 147-148 and 188-189
Normalize ==
    /\ ~nDone
    /\ nCtx' = _normalize_hits(nRaw, MAX_CTX_SNIPPETS, MAX_CTX_CHARS)
    /\ nCits' = _collect_citations(nCtx')
    /\ nDone' = TRUE
    /\ UNCHANGED <<nRaw, cfgVars, finVars, pipeVars>>

NextNorm == Normalize

SpecNorm == InitNorm /\ [][NextNorm]_vars

RECURSIVE SumText(_)
SumText(hits) ==
    IF hits = <<>> THEN 0 ELSE Len(HitText(Head(hits))) + SumText(Tail(hits))

Labels(hits) == {_label(hits[i]) : i \in 1..Len(hits)}

\* C1: the list returned by _normalize_hits has at most MAX_CTX_SNIPPETS
\* items and the sum of their text lengths is at most MAX_CTX_CHARS, for
\* every input list and every non-negative setting.
C1_NormalizeWithinBudget ==
    nDone => /\ Len(nCtx) <= MAX_CTX_SNIPPETS
             /\ SumText(nCtx) <= MAX_CTX_CHARS

\* both budgets are met exactly while a deduplicated hit was left out
C1_Witness ==
    /\ nDone
    /\ MAX_CTX_SNIPPETS > 0
    /\ Len(nCtx) = MAX_CTX_SNIPPETS
    /\ MAX_CTX_CHARS > 0
    /\ SumText(nCtx) = MAX_CTX_CHARS
    /\ Len(Dedup(nRaw)) > Len(nCtx)

\* the least index of a hit of hits labelled lab
FirstIndex(lab, hits) ==
    CHOOSE i \in 1..Len(hits) :
        /\ _label(hits[i]) = lab
        /\ \A j \in 1..(i - 1) : _label(hits[j]) # lab

\* C2: the citations are pairwise distinct, each is the label of a hit of
\* the normalized evidence, and they appear in the order of their first
\* occurrence in the normalized (not the raw) evidence.
C2_CitationsDistinctOrdered ==
    nDone =>
        /\ \A i, j \in 1..Len(nCits) : i # j => nCits[i] # nCits[j]
        /\ \A i \in 1..Len(nCits) : nCits[i] \in Labels(nCtx)
        /\ \A i, j \in 1..Len(nCits) :
               i < j /\ nCits[i] \in Labels(nCtx) /\ nCits[j] \in Labels(nCtx)
                   => FirstIndex(nCits[i], nCtx) < FirstIndex(nCits[j], nCtx)

\* two citations, from raw hits that held a duplicate label and a
\* recent_queries hit, in an order that differs from the raw order
C2_Witness ==
    /\ nDone
    /\ Len(nCits) = 2
    /\ Len(nRaw) = 3
    /\ \E i \in 1..Len(nRaw) : IsNoise(nRaw[i])
    /\ _label(nRaw[1]) # nCits[1]

\* the indices of dedup before i whose hit was admitted
AdmittedBefore(dedup, i, ctx) ==
    {j \in 1..(i - 1) : _label(dedup[j]) \in Labels(ctx)}

RECURSIVE SumOver(_, _)
SumOver(dedup, idx) ==
    IF idx = {} THEN 0
    ELSE LET j == CHOOSE k \in idx : TRUE
         IN  Len(HitText(dedup[j])) + SumOver(dedup, idx \ {j})

\* C9: walking the deduplicated hits in order, a hit is admitted exactly
\* when fewer than MAX_CTX_SNIPPETS hits are already admitted and the
\* running text total plus its text length is at most MAX_CTX_CHARS; an
\* overflowing hit is skipped and later hits are still considered; once
\* MAX_CTX_SNIPPETS hits are admitted no later hit is admitted.
C9_BudgetTrimPolicy ==
    nDone =>
        LET dedup == Dedup(nRaw)
        IN  /\ nCtx = SelectSeq(dedup, LAMBDA h : _label(h) \in Labels(nCtx))
            /\ \A i \in 1..Len(dedup) :
                   LET before == AdmittedBefore(dedup, i, nCtx)
                   IN  (_label(dedup[i]) \in Labels(nCtx))
                       <=> /\ Cardinality(before) < MAX_CTX_SNIPPETS
                           /\ SumOver(dedup, before) + Len(HitText(dedup[i]))
                                  <= MAX_CTX_CHARS

\* a hit is skipped for overflowing the character budget, a later and
\* smaller hit is admitted, and a hit that would still fit the character
\* budget is refused because the snippet limit is reached
C9_Witness ==
    /\ nDone
    /\ LET dedup == Dedup(nRaw)
       IN  /\ Len(dedup) = 3
           /\ Len(nCtx) = 1
           /\ MAX_CTX_SNIPPETS = 1
           /\ nCtx[1] = dedup[2]
           /\ Len(HitText(dedup[1])) > MAX_CTX_CHARS
           /\ Len(HitText(dedup[2])) + Len(HitText(dedup[3])) <= MAX_CTX_CHARS

----------------------------------------------------------------------------
(* SpecFin: the answer post-processing applied to its own output *)

\* the pieces model-generated content is put together from
ContentPieces ==
    { <<"a">>, <<" ">>, <<"\n">>, <<"\r">>,
      <<"S", "o", "u", "r", "c", "e", ":", " ", "x">>,
      <<"s", "o", "u", "r", "c", "e", ":">> }

RECURSIVE Concat(_)
Concat(parts) == IF parts = <<>> THEN <<>> ELSE Head(parts) \o Concat(Tail(parts))

Contents == {Concat(ps) : ps \in SeqsUpTo(ContentPieces, MaxPieces)}

\* citation lists; the last two hold a label whose doc_id has a line break
CitationLists ==
    { <<>>,
      <<sA>>,
      <<sA, sB \o <<"#">> \o sIntro>>,
      <<sUnknown, sA>>,
      <<<<"A", "\n", "B">>>>,
      <<sA, <<"B", "\r", "\n", "c">>>> }

InitFin ==
    /\ MAX_CTX_SNIPPETS = 3
    /\ MAX_CTX_CHARS = 2400
    /\ NormIdle
    /\ PipeIdle
    /\ fCits \in CitationLists
    /\ fOut \in Contents
    /\ fPrev = fOut
    /\ fPasses = 0

ApplyFinalize ==
    /\ fPasses < MaxPasses
    /\ fPrev' = fOut
    /\ fOut' = Finalize(fOut, fCits)
    /\ fPasses' = fPasses + 1
    /\ UNCHANGED <<fCits, cfgVars, normVars, pipeVars>>

NextFin == ApplyFinalize

SpecFin == InitFin /\ [][NextFin]_vars

\* C3: the post-processing is idempotent: a second pass over its own
\* output, with the same citation list, changes nothing, for any content
\* and any citation list, labels with line breaks included.
C3_FinalizeIdempotent ==
    fPasses >= 2 => fOut = fPrev

HasLineBreak(s) == \E i \in 1..Len(s) : s[i] \in LineBreaks

\* idempotence, for the citation lists whose labels hold no line break
FinalizeIdempotentWithoutBreaks ==
    (fPasses >= 2 /\ \A i \in 1..Len(fCits) : ~HasLineBreak(fCits[i]))
        => fOut = fPrev

----------------------------------------------------------------------------
(* The pipeline specifications *)

\* raw hits: a recent_queries hit, a label twice, and texts that fill the budget
HitsA ==
    << Hit(Some(sX1), Some(sRecentMixed), None, None),
       Hit(None, Some(sA), Some(sIntro), Some(sX1)),
       Hit(Some(sX2), Some(sA), Some(sIntro), None),
       Hit(Some(sX1), Some(sB), None, None) >>
\* raw hits of which the second overflows the budget and the third fits
HitsB ==
    << Hit(Some(sX3), Some(sA), Some(sFull), None),
       Hit(None, None, None, None),
       Hit(Some(<<>>), Some(sB), Some(sIntro), Some(sX2)) >>

\* a completion that echoes a source line of its own
ContentA == <<"a", "\n", "s", "o", "u", "r", "c", "e", ":", " ", "x">>

UsageA == Usage(1, 2, 3, {})
UsageB == Usage(4, 5, 9, {})
\* a usage whose completion_tokens is not a number
UsageBad == Usage(7, 0, 0, {"completion_tokens"})

InitPipe ==
    /\ MAX_CTX_SNIPPETS = 2
    /\ MAX_CTX_CHARS = 3
    /\ NormIdle
    /\ FinIdle
    /\ PipeIdle

AllRetrieverResponses ==
    {RetrieverOk(HitsA)} \cup {RetrieverFails(k) : k \in RetrievalFailures}
AllVllmResponses ==
    {VllmOk(ContentA, UsageA), VllmOk(ContentA, UsageB), VllmOk(ContentA, UsageBad),
     VllmFails("no_content")}
        \cup {VllmFails(k) : k \in GenerationCallFailures}

\* Spec: default requests against services that answer in every way
DefaultChatBodies == {ChatBody("q1", DefaultMaxTokens, DefaultTemperature, FALSE)}
DefaultDryBodies == {DryBody("q1")}

Next ==
    \E r \in Reqs :
        \/ ChatRetrieve(r, DefaultChatBodies, AllRetrieverResponses)
        \/ ChatGenerate(r, AllVllmResponses)
        \/ SetTokPrompt(r)
        \/ SetTokCompletion(r)
        \/ SetTokTotal(r)
        \/ ChatFinish(r)
        \/ Dryrun(r, DefaultDryBodies, AllRetrieverResponses)

Spec == InitPipe /\ [][Next]_vars

\* SpecClamp: /chat requests over in-range and out-of-range sampling
\* parameters (max_tokens, temperature in hundredths)
ClampParams ==
    { <<200, 10>>, <<256, 50>>, <<257, 51>>, <<500, 90>>,
      <<-1, -10>>, <<0, 0>>, <<500, -10>>, <<255, 49>> }
ClampChatBodies == {ChatBody("q1", p[1], p[2], FALSE) : p \in ClampParams}
ClampRetrieverResponses == {RetrieverOk(HitsA), RetrieverFails("status")}
ClampVllmResponses == {VllmOk(ContentA, UsageA)}

NextClamp ==
    \E r \in Reqs :
        \/ ChatRetrieve(r, ClampChatBodies, ClampRetrieverResponses)
        \/ ChatGenerate(r, ClampVllmResponses)
        \/ SetTokPrompt(r)
        \/ SetTokCompletion(r)
        \/ SetTokTotal(r)
        \/ ChatFinish(r)
        \/ Dryrun(r, DefaultDryBodies, ClampRetrieverResponses)

SpecClamp == InitPipe /\ [][NextClamp]_vars

\* SpecDry: /dryrun and /chat with debug=true over two questions and three
\* retrieval responses
Questions == {"q1", "q2"}
DebugChatBodies ==
    {ChatBody(q, DefaultMaxTokens, DefaultTemperature, TRUE) : q \in Questions}
DryBodies == {DryBody(q) : q \in Questions}
DryRetrieverResponses == {RetrieverOk(HitsA), RetrieverOk(HitsB), RetrieverOk(<<>>)}

NextDry ==
    \E r \in Reqs :
        \/ ChatRetrieve(r, DebugChatBodies, DryRetrieverResponses)
        \/ ChatGenerate(r, ClampVllmResponses)
        \/ SetTokPrompt(r)
        \/ SetTokCompletion(r)
        \/ SetTokTotal(r)
        \/ ChatFinish(r)
        \/ Dryrun(r, DryBodies, DryRetrieverResponses)

SpecDry == InitPipe /\ [][NextDry]_vars

----------------------------------------------------------------------------
(* Claims about the handlers *)

Count(P(_)) == Cardinality({r \in Reqs : P(r)})

IsChat(r) == frame[r].route = "/chat"
Exited(r) == frame[r].pc \in {"done", "error"}
RetrievalFailed(r) == frame[r].rag \in RetrievalFailures
ReceivedFrom(r) == {m \in vllm_received : m.from = r}

\* the value the clamp of a range [lo, hi] sends for x
Nearest(x, lo, hi) == IF x < lo THEN lo ELSE IF x > hi THEN hi ELSE x

\* C4: for every caller-supplied max_tokens and temperature the payload sent
\* to the generation backend has max_tokens <= 256 and 0.0 <= temperature
\* <= 0.5; out-of-range values are clamped to the nearest bound, in-range
\* values are sent unchanged, and no request is rejected for its values.
C4_SamplingClamped ==
    /\ \A m \in vllm_received :
          LET body == frame[m.from].req
          IN  /\ m.payload.max_tokens <= 256
              /\ m.payload.temperature >= 0
              /\ m.payload.temperature <= 50
              /\ m.payload.max_tokens =
                    IF body.max_tokens > 256 THEN 256 ELSE body.max_tokens
              /\ m.payload.temperature = Nearest(body.temperature, 0, 50)
    /\ \A r \in Reqs :
          (IsChat(r) /\ frame[r].rag = "ok" /\ frame[r].pc # "generate")
              => ReceivedFrom(r) # {}

\* temperature 0.9 and max_tokens 500 reached the backend as 0.5 and 256
C4_Witness ==
    \E m \in vllm_received :
        /\ frame[m.from].req.temperature = 90
        /\ frame[m.from].req.max_tokens = 500
        /\ m.payload.temperature = 50
        /\ m.payload.max_tokens = 256
        /\ resp[m.from].status = "ok"

\* C5: a /chat request whose retrieval call times out, returns a non-success
\* status or otherwise errors ends with an error, no call to the generation
\* backend is made for it, and no answer is returned.
C5_RetrievalFailureAborts ==
    \A r \in Reqs :
        (IsChat(r) /\ RetrievalFailed(r))
            => /\ frame[r].pc = "error"
               /\ resp[r].status = "error"
               /\ resp[r].answer = <<>>
               /\ ReceivedFrom(r) = {}

\* a /chat request has failed in retrieval while another one was answered
C5_Witness ==
    \E r1, r2 \in Reqs :
        /\ IsChat(r1) /\ frame[r1].rag = "timeout" /\ resp[r1].status = "error"
        /\ IsChat(r2) /\ resp[r2].status = "ok"
        /\ ReceivedFrom(r2) # {}

\* the generation stage of r has failed: the service was unreachable, it
\* answered a non-success status, or its answer was malformed (no JSON, or a
\* completion without choices[0].message.content)
GenerationFailed(r) ==
    frame[r].llm \in GenerationCallFailures \cup {"no_content"}

\* C6: the retriever error counter is incremented by one exactly when the
\* retrieval stage of a request fails and the generation error counter by
\* one exactly when its generation stage fails, a malformed response
\* included; a request that has aborted has been counted.
C6_ErrorCountersExact ==
    /\ ERRS["retriever"] = Count(RetrievalFailed)
    /\ ERRS["vllm"] = Count(GenerationFailed)

RetrievalStarted(r) == frame[r].pc # "idle"
GenerationStarted(r) == frame[r].llm # ""
ChatExited(r) == IsChat(r) /\ Exited(r)
ChatSucceeded(r) == IsChat(r) /\ frame[r].pc = "done"

\* C7: on every exit path of a /chat request the latency of each stage that
\* was started is observed exactly once and the end-to-end latency is
\* observed too, also when the request aborts part-way.
C7_LatencyOnEveryExit ==
    /\ RAG_LAT = Count(RetrievalStarted)
    /\ VLLM_LAT = Count(GenerationStarted)
    /\ E2E_LAT = Count(ChatExited)

\* C7, amended: the latency of each stage that was started is observed
\* exactly once on every exit path; the end-to-end latency is observed
\* exactly once by a request that succeeds and not at all by one that aborts.
C7_StageLatencyAlwaysEndToEndOnSuccess ==
    /\ RAG_LAT = Count(RetrievalStarted)
    /\ VLLM_LAT = Count(GenerationStarted)
    /\ E2E_LAT = Count(ChatSucceeded)

\* one /chat request has succeeded, one has aborted in generation
C7_Witness ==
    \E r1, r2 \in Reqs :
        /\ ChatSucceeded(r1)
        /\ IsChat(r2) /\ frame[r2].pc = "error" /\ frame[r2].llm = "status"
        /\ E2E_LAT = 1
        /\ VLLM_LAT = 2

IsDebugChat(r) == IsChat(r) /\ frame[r].req.debug /\ resp[r].status = "ok"
IsDryrun(r) == frame[r].route = "/dryrun" /\ resp[r].status = "ok"

\* C8: for the same question, k and retrieval response, /dryrun and /chat
\* with debug=true return identical messages and citations, both built from
\* the normalized evidence, and /dryrun never calls the generation backend.
C8_DryrunMatchesChat ==
    /\ \A d, c \in Reqs :
          (/\ IsDryrun(d)
           /\ IsDebugChat(c)
           /\ frame[d].req.question = frame[c].req.question
           /\ frame[d].req.k = frame[c].req.k
           /\ frame[d].raw_hits = frame[c].raw_hits)
              => /\ resp[d].messages = Some(resp[c].debug[1].messages)
                 /\ resp[d].citations = resp[c].citations
                 /\ resp[c].debug[1].messages =
                        build_messages(frame[c].req.question, frame[c].ctx_hits)
                 /\ \E m \in ReceivedFrom(c) :
                        m.payload.messages = resp[d].messages[1]
    /\ \A d \in Reqs : frame[d].route = "/dryrun" => ReceivedFrom(d) = {}

\* a /dryrun and a debug /chat have answered the same question over raw
\* hits that normalisation reorders and trims
C8_Witness ==
    \E d, c \in Reqs :
        /\ IsDryrun(d)
        /\ IsDebugChat(c)
        /\ frame[d].req.question = frame[c].req.question
        /\ frame[d].raw_hits = HitsB
        /\ frame[c].raw_hits = HitsB
        /\ Len(frame[c].ctx_hits) = 2
        /\ resp[c].debug[1].raw_hits # frame[c].ctx_hits

UsageOf(r) ==
    <<frame[r].usage.prompt_tokens, frame[r].usage.completion_tokens,
      frame[r].usage.total_tokens>>

\* C10: once concurrently executing /chat requests have all completed
\* successfully, the three token gauges hold the usage counts of one and
\* the same request, never a mixture of counts of different requests.
C10_GaugesOfOneRequest ==
    (\A r \in Reqs : ChatSucceeded(r) /\ frame[r].usage.bad = {})
        => \E r \in Reqs : <<TOK_PROMPT, TOK_COMPLETION, TOK_TOTAL>> = UsageOf(r)

====
